---- MODULE Spec2Model ----
(***************************************************************************)
(* The two METPV weather-archive decoders of the repository, and two       *)
(* helpers of its desktop automation script (src/demo-automation.py:       *)
(* get_safe_filename and clear_pcs_list).  The decoders:                    *)
(*   - the vertical (fixed-width) decoder,                                  *)
(*       src/metpv_11_automation/convert_metpv11_FINAL_CORRECT.py           *)
(*   - the horizontal (comma-delimited) decoder,                            *)
(*       src/metpv_20_automation/convert_horizontal_pysam.py                *)
(* Each is a batch script; one action of the model is one step of the       *)
(* script (open and read, header, one iteration of the line loop, table     *)
(* assembly, to_csv).                                                       *)
(*                                                                          *)
(* Numbers.  A cell of a table is NaN or a number.  Physical values are exact *)
(* multiples of 1/Unit, so that the scale factors 2.7778, 0.1 and           *)
(* 10000/3600 are all integers; floating-point rounding is not modelled.    *)
(* Instants are whole hours counted from 2016-01-01 00:00 (Calendar gives   *)
(* the calendar fields of an instant, HoursOf the instant of a date).       *)
(***************************************************************************)
EXTENDS Integers, Sequences, FiniteSets, TLC

VARIABLES
    vpc,          \* vertical script: position in the script
    lines,        \* vertical: f.readlines(), each line named by its descriptor
    vi,           \* vertical: number of data lines the loop has consumed
    data_rows,    \* vertical: element code -> list of decoded hourly values
    station,      \* vertical: lat, lon, elevation parsed from the header
    df,           \* vertical: the assembled DataFrame (a record of columns)
    output_file,  \* vertical: content of the csv on disk, or NoFile
    vsummary,     \* vertical: the counts printed after saving
    vlog,         \* history: for every consumed data line, TRUE iff accepted
    hpc,          \* horizontal converter: position in the function
    reader,       \* horizontal: the rows of the csv file, each named by its descriptor
    hi,           \* horizontal: number of data rows the loop has consumed
    data,         \* horizontal: the dict timestamp -> channel values (keys in insertion order)
    metadata,     \* horizontal: the dict of station metadata
    hdf,          \* horizontal: the assembled DataFrame (a record of columns)
    houtput,      \* horizontal: content of the csv on disk, or NoFile
    hprinted,     \* horizontal: the warnings and errors printed so far
    hsummary,     \* horizontal: the counts printed after saving
    hlog,         \* history: for every consumed data row, TRUE iff it was applied
    gpc,          \* get_safe_filename: position in the function
    overwrite,    \* get_safe_filename: CONFIG output_files.overwrite_existing
    output_dir,   \* get_safe_filename: CONFIG output_files.output_directory
    base_filename,    \* get_safe_filename: argument
    check_extension,  \* get_safe_filename: argument
    disk,         \* get_safe_filename: the paths os.path.exists finds
    counter,      \* get_safe_filename: the auto-increment counter
    gret,         \* get_safe_filename: the returned name
    ppc,          \* clear_pcs_list: position in the function
    list_exists,  \* clear_pcs_list: list_box.exists()
    count,        \* clear_pcs_list: number of items of the list box
    ptry,         \* clear_pcs_list: iterations of the for loop begun
    premoved      \* history: TRUE iff every click so far removed the first item

varsV == <<vpc, lines, vi, data_rows, station, df, output_file, vsummary, vlog>>
varsH == <<hpc, reader, hi, data, metadata, hdf, houtput, hprinted, hsummary, hlog>>
varsG == <<gpc, overwrite, output_dir, base_filename, check_extension, disk, counter, gret>>
varsP == <<ppc, list_exists, count, ptry, premoved>>
vars == <<varsV, varsH, varsG, varsP>>

-----------------------------------------------------------------------------
(* Bounds of the model *)

\* number of consecutive day-lines of element 00001 a long file starts with
BulkLines == 365
\* number of freely chosen lines of a short file
MaxTail == 2
\* number of data rows of a horizontal file
MaxRows == 2

-----------------------------------------------------------------------------
(* Numbers, cells *)

\* 2.7778 = 13889/5000 and 10000/3600 = 25/9
Unit == 9 * 5000

\* np.nan: the one float that is no number.  It is kept apart from every
\* number of the model (all of them lie strictly between NaN and -NaN).
NaN == -2147483647
Num(v) == v
IsNaN(c) == c = NaN

\* numpy: array * scale; nan * scale is nan.  scale is given in 1/Unit.
Times(c, scale) == IF IsNaN(c) THEN NaN ELSE Num(c * scale)

Min(a, b) == IF a < b THEN a ELSE b
Max(a, b) == IF a > b THEN a ELSE b

NoFile == [written |-> FALSE]

-----------------------------------------------------------------------------
(* Strings: a string is a sequence of one-character strings *)

Digits == <<"0", "1", "2", "3", "4", "5", "6", "7", "8", "9">>
IsDigit(c) == \E i \in 1..10 : Digits[i] = c
DigitVal(c) == (CHOOSE i \in 1..10 : Digits[i] = c) - 1
IsSpace(c) == c \in {" ", "\n", "\r", "\t"}

\* Python s[a:b] for 0 <= a <= b (indices clamped to the length of s)
Slice(s, a, b) == SubSeq(s, a + 1, Min(b, Len(s)))

\* Python str.strip()
Strip(s) ==
    LET keep == {i \in 1..Len(s) : ~IsSpace(s[i])}
    IN  IF keep = {} THEN <<>>
        ELSE SubSeq(s, CHOOSE i \in keep : \A j \in keep : i <= j,
                       CHOOSE i \in keep : \A j \in keep : i >= j)

RECURSIVE DigitsVal(_)
DigitsVal(s) ==
    IF s = <<>> THEN 0
    ELSE 10 * DigitsVal(SubSeq(s, 1, Len(s) - 1)) + DigitVal(s[Len(s)])

Negative(t) == t # <<>> /\ t[1] = "-"
Unsigned(t) == IF t # <<>> /\ t[1] \in {"-", "+"} THEN Tail(t) ELSE t
AllDigits(s) == \A i \in 1..Len(s) : IsDigit(s[i])

SignedInt(neg, body) ==
    IF body # <<>> /\ AllDigits(body)
    THEN [ok |-> TRUE, v |-> IF neg THEN 0 - DigitsVal(body) ELSE DigitsVal(body)]
    ELSE [ok |-> FALSE, v |-> 0]

StrippedInt(t) == SignedInt(Negative(t), Unsigned(t))

\* Python int(s): optional surrounding whitespace, optional sign, then one or
\* more decimal digits; anything else raises ValueError (ok = FALSE).
ParseInt(s) == StrippedInt(Strip(s))

RECURSIVE NatStr(_)
NatStr(n) == IF n < 10 THEN <<Digits[n + 1]>>
             ELSE NatStr(n \div 10) \o <<Digits[(n % 10) + 1]>>

IntStr(n) == IF n < 0 THEN <<"-">> \o NatStr(0 - n) ELSE NatStr(n)

Spaces(n) == [i \in 1..n |-> " "]
Zeros(n) == [i \in 1..n |-> "0"]

\* right-justified in a field of width w, padded with blanks / with zeros
RJust(s, w) == Spaces(Max(0, w - Len(s))) \o s
ZFill(s, w) == Zeros(Max(0, w - Len(s))) \o s


\* position of the decimal point of a numeral (past its end when it has none)
DotAt(body) ==
    IF \E i \in 1..Len(body) : body[i] = "."
    THEN CHOOSE i \in 1..Len(body) : body[i] = "."
    ELSE Len(body) + 1

\* the value, in 1/Unit, of the numeral int.frac
SignedFloat(neg, int, frac) ==
    IF Len(int) + Len(frac) > 0 /\ Len(frac) <= 2 /\ AllDigits(int) /\ AllDigits(frac)
    THEN [ok |-> TRUE,
          v |-> (IF neg THEN 0 - 1 ELSE 1) * (Unit \div 100)
                * (100 * DigitsVal(int)
                   + (IF Len(frac) = 1 THEN 10 ELSE 1) * DigitsVal(frac))]
    ELSE [ok |-> FALSE, v |-> 0]

SplitFloat(neg, body, dot) ==
    SignedFloat(neg, SubSeq(body, 1, dot - 1), SubSeq(body, dot + 1, Len(body)))

StrippedFloat(t) == SplitFloat(Negative(t), Unsigned(t), DotAt(Unsigned(t)))

\* Python float(s) for the decimal notations of the archives: optional
\* surrounding whitespace, optional sign, digits, optionally a point and at
\* most two decimals; anything else raises ValueError (ok = FALSE).
ParseFloat(s) == StrippedFloat(Strip(s))

-----------------------------------------------------------------------------
(* Calendar *)

IsLeap(y) == (y % 4 = 0 /\ y % 100 # 0) \/ y % 400 = 0
DaysInMonth(y, m) ==
    IF m = 2 THEN (IF IsLeap(y) THEN 29 ELSE 28)
    ELSE IF m \in {4, 6, 9, 11} THEN 30 ELSE 31
DaysInYear(y) == IF IsLeap(y) THEN 366 ELSE 365

RECURSIVE DaysBeforeMonth(_, _)
DaysBeforeMonth(y, m) ==
    IF m <= 1 THEN 0 ELSE DaysBeforeMonth(y, m - 1) + DaysInMonth(y, m - 1)

AnchorYear == 2016

RECURSIVE DaysBeforeYear(_)
DaysBeforeYear(y) ==
    IF y <= AnchorYear THEN 0 ELSE DaysBeforeYear(y - 1) + DaysInYear(y - 1)

ValidDate(y, m, d) == m \in 1..12 /\ d \in 1..DaysInMonth(y, m)

\* the instant y-m-d h:00, in hours since AnchorYear-01-01 00:00
HoursOf(y, m, d, h) ==
    24 * (DaysBeforeYear(y) + DaysBeforeMonth(y, m) + (d - 1)) + h

YearOfDay(days) ==
    CHOOSE y \in AnchorYear..(AnchorYear + 3) :
        DaysBeforeYear(y) <= days /\ days < DaysBeforeYear(y) + DaysInYear(y)

MonthOfDay(y, rest) ==
    CHOOSE m \in 1..12 :
        DaysBeforeMonth(y, m) <= rest /\ rest < DaysBeforeMonth(y, m) + DaysInMonth(y, m)

CalendarYMD(y, m, rest, h) ==
    [year |-> y, month |-> m, day |-> rest - DaysBeforeMonth(y, m) + 1, hour |-> h]

CalendarInYear(y, rest, h) == CalendarYMD(y, MonthOfDay(y, rest), rest, h)

CalendarOfDay(y, days, h) == CalendarInYear(y, days - DaysBeforeYear(y), h)

\* the calendar fields of an instant
Calendar(t) == CalendarOfDay(YearOfDay(t \div 24), t \div 24, t % 24)

\* month and day of the n-th day (n >= 1) of a 365-day year
MonthDay(n) == CalendarInYear(2017, (n - 1) % 365, 0)

DayOfYear(m, d) == DaysBeforeMonth(2017, m) + d

-----------------------------------------------------------------------------
(* Vertical format: the text of the input lines *)

\* A data line is named by [code, month, day, kind, width]: element number,
\* date, the kind of its 24 hourly fields and the number of characters before
\* the line end.  LineText is the line as readlines() returns it.
Code(n) == <<"0", "0", "0", "0", Digits[n + 1]>>

\* the raw integer the archive holds for hour h (0..23) of day (m, d): one
\* value per hour of the year, negative ones included
RawValue(m, d, h) == (DayOfYear(m, d) - 1) * 24 + h - 500

Sentinel == 8888

\* the 5-character hourly field (4 characters value, 1 character remark)
HourField(d, h) ==
    LET plain == RJust(IntStr(RawValue(d.month, d.day, h)), 4) \o <<" ">>
    IN  CASE d.kind = "num" -> plain
          [] d.kind = "neg" -> RJust(IntStr(0 - (h + 1)), 4) \o <<" ">>
          [] d.kind = "mixed" ->
               CASE h % 6 = 0 -> RJust(IntStr(Sentinel), 4) \o <<" ">>
                 [] h % 6 = 1 -> <<" ", "1", "x", "2", " ">>
                 [] h % 6 = 2 -> Spaces(5)
                 [] h % 6 = 3 -> RJust(IntStr(0 - h), 4) \o <<"x">>
                 [] OTHER -> plain

RECURSIVE HourFields(_, _)
HourFields(d, h) ==
    IF h >= 24 THEN <<>> ELSE HourField(d, h) \o HourFields(d, h + 1)

FullLine(d) ==
    Code(d.code) \o <<" ">> \o ZFill(NatStr(d.month), 2) \o ZFill(NatStr(d.day), 2)
    \o Spaces(5) \o HourFields(d, 0)

LineText(d) == SubSeq(FullLine(d), 1, Min(d.width, Len(FullLine(d)))) \o <<"\n">>

\* The header line is named by its five numeric fields (each a string of the
\* field's width) and its width.
HeaderText(hd) ==
    LET full == <<"5", "3", "0", "9", "1">> \o <<" ">> \o Spaces(20)
                \o hd.latd \o hd.latm \o hd.lond \o hd.lonm \o hd.elev
    IN  SubSeq(full, 1, Min(hd.width, Len(full))) \o <<"\n">>

-----------------------------------------------------------------------------
(* Vertical format: the input files of the model *)

DataLine(c, m, d, k, w) == [code |-> c, month |-> m, day |-> d, kind |-> k, width |-> w]

FullWidth == 15 + 24 * 5

\* the lines a short file is made of
LineAlphabet ==
    { DataLine(1, 12, 31, "num", FullWidth),
      DataLine(5, 1, 1, "mixed", FullWidth),
      DataLine(1, 1, 2, "num", 100),
      DataLine(2, 12, 1, "mixed", 132),
      DataLine(4, 1, 1, "num", FullWidth),
      DataLine(7, 1, 2, "neg", FullWidth),
      DataLine(1, 1, 1, "num", FullWidth) }

RECURSIVE SeqsUpTo(_, _)
SeqsUpTo(S, n) ==
    IF n = 0 THEN {<<>>}
    ELSE LET shorter == SeqsUpTo(S, n - 1)
         IN  shorter \cup {Append(q, x) : q \in {r \in shorter : Len(r) = n - 1}, x \in S}

\* the day-lines 1..n of element 00001, in calendar order
Bulk(n) == [k \in 1..n |->
              DataLine(1, MonthDay(k).month, MonthDay(k).day, "num", FullWidth)]

Header(latd, latm, lond, lonm, elev, w) ==
    [latd |-> latd, latm |-> latm, lond |-> lond, lonm |-> lonm, elev |-> elev,
     width |-> w]

GoodHeader ==
    Header(RJust(<<"3", "4">>, 5), <<"5", "1", ".", "3", "6">>,
           RJust(<<"1", "3", "5">>, 5), <<"3", "0", ".", "5", "0">>,
           RJust(<<"1", "2", ".", "5">>, 8), 54)

\* a second well-formed header: 26 deg 12.40 min, 127 deg 41.10 min, 28.0 m
OtherHeader ==
    Header(RJust(<<"2", "6">>, 5), <<"1", "2", ".", "4", "0">>,
           RJust(<<"1", "2", "7">>, 5), <<"4", "1", ".", "1", "0">>,
           RJust(<<"2", "8", ".", "0">>, 8), 54)

HeaderAlphabet ==
    { GoodHeader,
      OtherHeader,
      [GoodHeader EXCEPT !.latm = Spaces(5)],
      [GoodHeader EXCEPT !.width = 40] }

\* what follows the day-lines of a long file
BulkTails ==
    { <<>>,
      <<DataLine(1, 12, 31, "num", FullWidth)>>,
      <<DataLine(1, 1, 2, "num", 100), DataLine(5, 1, 1, "mixed", FullWidth)>>,
      <<DataLine(1, 12, 31, "num", FullWidth), DataLine(5, 1, 1, "mixed", FullWidth)>> }

\* the files: empty; a header and at most MaxTail lines; a header, BulkLines
\* day-lines of element 00001 and one of BulkTails
Files ==
    {<<>>}
    \cup {<<hd>> \o t : hd \in HeaderAlphabet, t \in SeqsUpTo(LineAlphabet, MaxTail)}
    \cup {<<GoodHeader>> \o Bulk(BulkLines) \o t : t \in BulkTails}

-----------------------------------------------------------------------------
(* Vertical format: the decoder *)

TargetLen == 8760
MinWidth == 130
KnownCodes == {Code(1), Code(2), Code(3), Code(5), Code(7)}

\* the scale factors 2.7778 and 0.1, in 1/Unit
ScaleIrradiance == 13889 * (Unit \div 5000)
ScaleTenth == Unit \div 10

\* StationOf with the minutes added undivided
StationOf_MinutesUndivided(latd, latm, lond, lonm, elev) ==
    [ok |-> latd.ok /\ latm.ok /\ lond.ok /\ lonm.ok /\ elev.ok,
     lat |-> latd.v + latm.v,
     lon |-> lond.v + lonm.v,
     elevation |-> elev.v]

\* lines 19-21: the station record of five parsed fields
StationOf(latd, latm, lond, lonm, elev) ==
    [ok |-> latd.ok /\ latm.ok /\ lond.ok /\ lonm.ok /\ elev.ok,
     lat |-> latd.v + latm.v \div 60,
     lon |-> lond.v + lonm.v \div 60,
     elevation |-> elev.v]

\* lines 16-21: the header fields; float() raises on a field that is no number
ParseHeader(header) ==
    StationOf(ParseFloat(Slice(header, 26, 31)), ParseFloat(Slice(header, 31, 36)),
              ParseFloat(Slice(header, 36, 41)), ParseFloat(Slice(header, 41, 46)),
              ParseFloat(Slice(header, 46, 54)))

\* line 33: the width check of the loop
Accepted(line) == ~(Len(line) < MinWidth)

\* DecodeValue without the test of line 50
DecodeValue_KeepsSentinel(val) == IF val.ok THEN Num(val.v) ELSE NaN

\* lines 48-55: the entry appended for a val_str
DecodeValue(val) ==
    IF val.ok
    THEN (IF val.v = Sentinel THEN NaN ELSE Num(val.v))
    ELSE NaN

\* lines 40-55: the value of hour slot h (0..23) of a line
DecodeHour(line, h) ==
    DecodeValue(ParseInt(Slice(Slice(line, 15 + h * 5, 15 + h * 5 + 5), 0, 4)))

\* DecodeLine with one try around the 24 fields: a field that is no integer
\* makes every hour of the line NaN
DecodeLine_AllOrNothing(line) ==
    IF \A k \in 1..24 :
           ParseInt(Slice(Slice(line, 15 + (k - 1) * 5, 15 + (k - 1) * 5 + 5), 0, 4)).ok
    THEN [k \in 1..24 |-> DecodeHour(line, k - 1)]
    ELSE [k \in 1..24 |-> NaN]

\* lines 37-55: the hourly_values of a line
DecodeLine(line) == [k \in 1..24 |-> DecodeHour(line, k - 1)]

\* Extend with the new block put before the earlier ones
Extend_Prepends(rows, element_code, hourly_values) ==
    IF element_code \in DOMAIN rows
    THEN [rows EXCEPT ![element_code] = hourly_values \o @]
    ELSE [c \in DOMAIN rows \cup {element_code} |->
            IF c = element_code THEN hourly_values ELSE rows[c]]

\* lines 57-59: data_rows after hourly_values was appended under element_code
Extend(rows, element_code, hourly_values) ==
    IF element_code \in DOMAIN rows
    THEN [rows EXCEPT ![element_code] = @ \o hourly_values]
    ELSE [c \in DOMAIN rows \cup {element_code} |->
            IF c = element_code THEN hourly_values ELSE rows[c]]

\* lines 62-63
start_date == HoursOf(2016, 1, 1, 0)

\* timestamps with range(1, 8761) in place of range(8760)
timestamps_FromOne == [k \in 1..TargetLen |-> start_date + k]

timestamps == [k \in 1..TargetLen |-> start_date + (k - 1)]

\* get_param without the multiplication by scale of line 70
get_param_Unscaled(rows, code, scale) ==
    LET vals == IF code \in DOMAIN rows THEN rows[code] ELSE <<>>
        padded == IF Len(vals) < TargetLen
                  THEN vals \o [k \in 1..(TargetLen - Len(vals)) |-> NaN]
                  ELSE vals
    IN  [k \in 1..Min(TargetLen, Len(padded)) |-> Times(padded[k], Unit)]

\* get_param without the slice [:8760] of line 70
get_param_Unsliced(rows, code, scale) ==
    LET vals == IF code \in DOMAIN rows THEN rows[code] ELSE <<>>
        padded == IF Len(vals) < TargetLen
                  THEN vals \o [k \in 1..(TargetLen - Len(vals)) |-> NaN]
                  ELSE vals
    IN  [k \in 1..Len(padded) |-> Times(padded[k], scale)]

\* get_param padding with 0 in place of np.nan
get_param_PadsZero(rows, code, scale) ==
    LET vals == IF code \in DOMAIN rows THEN rows[code] ELSE <<>>
        padded == IF Len(vals) < TargetLen
                  THEN vals \o [k \in 1..(TargetLen - Len(vals)) |-> 0]
                  ELSE vals
    IN  [k \in 1..Min(TargetLen, Len(padded)) |-> Times(padded[k], scale)]

\* lines 65-70
get_param(rows, code, scale) ==
    LET vals == IF code \in DOMAIN rows THEN rows[code] ELSE <<>>
        padded == IF Len(vals) < TargetLen
                  THEN vals \o [k \in 1..(TargetLen - Len(vals)) |-> NaN]
                  ELSE vals
    IN  [k \in 1..Min(TargetLen, Len(padded)) |-> Times(padded[k], scale)]

\* lines 79-89: the names of the columns, in order
VColumns ==
    <<"DateTime", "GHI", "DNI_horiz", "DHI", "Temperature", "WindSpeed",
      "Latitude", "Longitude", "Elevation">>

\* lines 79-89: the DataFrame; a scalar is repeated on every row
MakeFrame(rows, st) ==
    [columns |-> VColumns,
     DateTime |-> timestamps,
     GHI |-> get_param(rows, Code(1), ScaleIrradiance),
     DNI_horiz |-> get_param(rows, Code(2), ScaleIrradiance),
     DHI |-> get_param(rows, Code(3), ScaleIrradiance),
     Temperature |-> get_param(rows, Code(5), ScaleTenth),
     WindSpeed |-> get_param(rows, Code(7), ScaleTenth),
     Latitude |-> [k \in 1..Len(timestamps) |-> st.lat],
     Longitude |-> [k \in 1..Len(timestamps) |-> st.lon],
     Elevation |-> [k \in 1..Len(timestamps) |-> st.elevation]]

NoFrame == [columns |-> <<>>]

\* the positions at which an uncaught exception ended the run
Raised == {"open_raised", "header_raised", "metadata_raised", "to_csv_raised"}
NoStation == [known |-> FALSE]

VInit ==
    /\ vpc = "start"
    /\ lines = <<>>
    /\ vi = 0
    /\ data_rows = <<>>
    /\ station = NoStation
    /\ df = NoFrame
    /\ output_file = NoFile
    /\ vsummary = <<>>
    /\ vlog = <<>>

\* lines 11-12: the file is read whole
V_Open ==
    /\ vpc = "start"
    /\ hpc = "start"
    /\ \E f \in Files : lines' = f
    /\ vpc' = "header"
    /\ UNCHANGED <<vi, data_rows, station, df, output_file, vsummary, vlog>>
    /\ UNCHANGED <<varsH, varsG, varsP>>

\* line 11: open() raises (file missing or unreadable); the script ends
V_OpenFails ==
    /\ vpc = "start"
    /\ hpc = "start"
    /\ vpc' = "open_raised"
    /\ UNCHANGED <<lines, vi, data_rows, station, df, output_file, vsummary, vlog>>
    /\ UNCHANGED <<varsH, varsG, varsP>>

\* lines 16-21: lines[0] raises IndexError on an empty file, float() raises
\* ValueError on a malformed field; nothing catches either
V_Header ==
    /\ vpc = "header"
    /\ IF lines = <<>>
       THEN vpc' = "header_raised" /\ UNCHANGED station
       ELSE LET h == ParseHeader(HeaderText(lines[1]))
            IN  IF h.ok
                THEN /\ station' = [known |-> TRUE, lat |-> h.lat, lon |-> h.lon,
                                    elevation |-> h.elevation]
                     /\ vpc' = "loop"
                ELSE vpc' = "header_raised" /\ UNCHANGED station
    /\ UNCHANGED <<lines, vi, data_rows, df, output_file, vsummary, vlog>>
    /\ UNCHANGED <<varsH, varsG, varsP>>

\* V_Line with an exception in place of the continue of line 33
V_Line_Raises ==
    /\ vpc = "loop"
    /\ vi < Len(lines) - 1
    /\ LET line == LineText(lines[vi + 2])
       IN  IF Accepted(line)
           THEN /\ data_rows' = Extend(data_rows, Strip(Slice(line, 0, 5)),
                                       DecodeLine(line))
                /\ vlog' = Append(vlog, TRUE)
                /\ UNCHANGED vpc
           ELSE /\ UNCHANGED data_rows
                /\ vlog' = Append(vlog, FALSE)
                /\ vpc' = "header_raised"
    /\ vi' = vi + 1
    /\ UNCHANGED <<lines, station, df, output_file, vsummary>>
    /\ UNCHANGED <<varsH, varsG, varsP>>

\* lines 32-59: one iteration of the loop over lines[1:]
V_Line ==
    /\ vpc = "loop"
    /\ vi < Len(lines) - 1
    /\ LET line == LineText(lines[vi + 2])
       IN  IF Accepted(line)
           THEN /\ data_rows' = Extend(data_rows, Strip(Slice(line, 0, 5)),
                                       DecodeLine(line))
                /\ vlog' = Append(vlog, TRUE)
           ELSE /\ UNCHANGED data_rows
                /\ vlog' = Append(vlog, FALSE)
    /\ vi' = vi + 1
    /\ UNCHANGED <<vpc, lines, station, df, output_file, vsummary>>
    /\ UNCHANGED <<varsH, varsG, varsP>>

\* lines 62-89: the loop is over; the table is assembled
V_Assemble ==
    /\ vpc = "loop"
    /\ vi = Len(lines) - 1
    /\ df' = MakeFrame(data_rows, station)
    /\ vpc' = "assembled"
    /\ UNCHANGED <<lines, vi, data_rows, station, output_file, vsummary, vlog>>
    /\ UNCHANGED <<varsH, varsG, varsP>>

\* V_Save moved into the loop: the table of the lines read so far is written
\* after every line
V_Save_InLoop ==
    /\ vpc = "loop"
    /\ ~output_file.written
    /\ output_file' = [written |-> TRUE, table |-> MakeFrame(data_rows, station)]
    /\ UNCHANGED <<vpc, lines, vi, data_rows, station, df, vsummary, vlog>>
    /\ UNCHANGED <<varsH, varsG, varsP>>

\* lines 93-98: to_csv, then the printed summary (the number of rows saved;
\* the three statistics of the values printed after it are not modelled)
V_Save ==
    /\ vpc = "assembled"
    /\ output_file' = [written |-> TRUE, table |-> df]
    /\ vsummary' = [rows |-> Len(df.DateTime)]
    /\ vpc' = "done"
    /\ UNCHANGED <<lines, vi, data_rows, station, df, vlog>>
    /\ UNCHANGED <<varsH, varsG, varsP>>

\* line 93: to_csv raises before it writes (destination not writable); the
\* script ends
V_SaveFails ==
    /\ vpc = "assembled"
    /\ vpc' = "to_csv_raised"
    /\ UNCHANGED <<lines, vi, data_rows, station, df, output_file, vsummary, vlog>>
    /\ UNCHANGED <<varsH, varsG, varsP>>

VNext ==
    \/ V_Open
    \/ V_OpenFails
    \/ V_Header
    \/ V_Line
    \/ V_Assemble
    \/ V_Save
    \/ V_SaveFails


-----------------------------------------------------------------------------
(* Horizontal format: the text of the input rows *)

\* A data row is named by [mtype, month, day, year, kind, ncols]; RowCells is
\* the list of cells csv.reader yields for it.
DataRow(t, m, d, y, k, n) ==
    [mtype |-> t, month |-> m, day |-> d, year |-> y, kind |-> k, ncols |-> n]

HourCell(r, h) ==
    CASE r.kind = "num" -> IntStr(RawValue(r.month, r.day, h))
      [] r.kind = "alt" -> <<" ">> \o IntStr(RawValue(r.month, r.day, h) + 1)
      [] r.kind = "blank" ->
           (IF h % 3 = 0 THEN <<>>
            ELSE IF h % 3 = 1 THEN <<" ">>
            ELSE IntStr(RawValue(r.month, r.day, h)))
      [] r.kind = "junk" ->
           (IF h = 5 THEN <<"x">> ELSE IntStr(RawValue(r.month, r.day, h)))
      [] OTHER -> IntStr(RawValue(r.month, r.day, h))

\* one of the four leading cells: the number n, or, in a row of kind k, a
\* cell that is no number
HeadCell(r, k, junk, n) == IF r.kind = k THEN junk ELSE IntStr(n)

FullRow(r) ==
    <<HeadCell(r, "badtype", <<"x">>, r.mtype),
      HeadCell(r, "badmonth", <<>>, r.month),
      HeadCell(r, "badday", <<"1", ".", "5", ".", "2">>, r.day),
      HeadCell(r, "badyear", <<"2", "0", "-", "1", "6">>, r.year)>>
    \o [k \in 1..24 |-> HourCell(r, k - 1)]
    \o <<<<>>, <<>>, <<>>>>

RowCells(r) == SubSeq(FullRow(r), 1, Min(r.ncols, Len(FullRow(r))))

\* the header row: id, name, lat_deg, lat_min, lon_deg, lon_min, elevation
HGoodHeader ==
    << <<"5", "3", "0", "9", "1">>, <<"K">>, <<"3", "4">>, <<"5", "1", ".", "3", "6">>,
       <<"1", "3", "5">>, <<"3", "0", ".", "5">>, <<"1", "2", ".", "5">> >>

HOtherHeader ==
    << <<"9", "1", "1", "9", "7">>, <<"N">>, <<" ", "2", "6">>, <<"1", "2", ".", "4">>,
       <<"1", "2", "7">>, <<"4", "1", ".", "1">>, <<"2", "8">> >>

HHeaderAlphabet ==
    { HGoodHeader,
      HOtherHeader,
      SubSeq(HGoodHeader, 1, 6),
      [HGoodHeader EXCEPT ![3] = <<>>],
      [HGoodHeader EXCEPT ![6] = <<"x">>] }

RowAlphabet ==
    { DataRow(1, 1, 1, 2016, "num", 30),
      DataRow(2, 1, 1, 2016, "num", 31),
      DataRow(1, 1, 3, 2016, "num", 30),
      DataRow(5, 1, 1, 2017, "blank", 30),
      DataRow(1, 1, 1, 2016, "alt", 30),
      DataRow(7, 1, 2, 2016, "num", 28),
      DataRow(1, 1, 2, 2016, "junk", 30),
      DataRow(2, 2, 30, 2016, "num", 30),
      DataRow(3, 1, 4, 2016, "num", 30),
      DataRow(1, 1, 5, 2016, "badtype", 30),
      DataRow(1, 1, 5, 2016, "badmonth", 30),
      DataRow(1, 1, 5, 2016, "badday", 30),
      DataRow(1, 1, 5, 2016, "badyear", 30) }

\* the files: empty; the good header row and at most MaxRows data rows; any
\* header row and at most one data row
HFiles ==
    {<<>>}
    \cup {<<HGoodHeader>> \o t : t \in SeqsUpTo(RowAlphabet, MaxRows)}
    \cup {<<hd>> \o t : hd \in HHeaderAlphabet, t \in SeqsUpTo(RowAlphabet, 1)}

-----------------------------------------------------------------------------
(* Horizontal format: the converter *)

MinColumns == 30

\* int(x) of a float given in 1/Unit: truncation toward zero
Trunc(v) == IF v >= 0 THEN v \div Unit ELSE 0 - ((0 - v) \div Unit)

\* lines 18-20: the metadata dict after the header row; an exception leaves
\* the entries assigned before it
HeaderMetadata(header) ==
    IF Len(header) < 7 THEN <<>>
    ELSE IF ~(ParseFloat(header[3]).ok /\ ParseFloat(header[4]).ok) THEN <<>>
    ELSE IF ~(ParseFloat(header[5]).ok /\ ParseFloat(header[6]).ok)
         THEN [k \in {"lat"} |-> ParseFloat(header[3]).v + ParseFloat(header[4]).v \div 60]
    ELSE IF ~ParseFloat(header[7]).ok
         THEN [k \in {"lat", "lon"} |->
                 IF k = "lat"
                 THEN ParseFloat(header[3]).v + ParseFloat(header[4]).v \div 60
                 ELSE ParseFloat(header[5]).v + ParseFloat(header[6]).v \div 60]
    ELSE [k \in {"lat", "lon", "elev"} |->
            IF k = "lat"
            THEN ParseFloat(header[3]).v + ParseFloat(header[4]).v \div 60
            ELSE IF k = "lon"
            THEN ParseFloat(header[5]).v + ParseFloat(header[6]).v \div 60
            ELSE ParseFloat(header[7]).v]

\* lines 17-23: TRUE iff the except clause printed its warning
HeaderWarns(header) ==
    Len(header) >= 7
    /\ ~(/\ ParseFloat(header[3]).ok /\ ParseFloat(header[4]).ok
         /\ ParseFloat(header[5]).ok /\ ParseFloat(header[6]).ok
         /\ ParseFloat(header[7]).ok)

\* line 26
StripCells(row) == [k \in 1..Len(row) |-> Strip(row[k])]

\* line 27
RowAccepted(row) == ~(row = <<>> \/ Len(row) < MinColumns)

\* HourValue without the test x != '': float('') raises
HourValue_BlankRaises(x) == ParseFloat(x)

\* line 37: one hourly cell
HourValue(x) == IF x # <<>> THEN ParseFloat(x) ELSE [ok |-> TRUE, v |-> 0]

\* line 37
HourlyVals(row) == [k \in 1..Len(Slice(row, 4, 28)) |-> HourValue(Slice(row, 4, 28)[k])]

\* line 49: pd.Timestamp(year=2016, month=month, day=day) raises on a date
\* the calendar does not have
BaseDate(month, day) ==
    IF ValidDate(2016, month, day)
    THEN [ok |-> TRUE, dt |-> HoursOf(2016, month, day, 0)]
    ELSE [ok |-> FALSE, dt |-> 0]

\* ParsedRow with pd.Timestamp(year=year, ...) in place of year=2016
ParsedRow_UsesYear(mt, mo, dy, yr, vals) ==
    [ok |-> mt.ok /\ mo.ok /\ dy.ok /\ yr.ok
            /\ (\A k \in 1..Len(vals) : vals[k].ok)
            /\ ValidDate(Trunc(yr.v), Trunc(mo.v), Trunc(dy.v)),
     m_type |-> Trunc(mt.v),
     year |-> Trunc(yr.v),
     base_dt |-> HoursOf(Trunc(yr.v), Trunc(mo.v), Trunc(dy.v), 0),
     hourly_vals |-> [k \in 1..Len(vals) |-> vals[k].v]]

\* lines 31-49 on a stripped row: ok is FALSE iff one of the steps raises
ParsedRow(mt, mo, dy, yr, vals) ==
    [ok |-> mt.ok /\ mo.ok /\ dy.ok /\ yr.ok
            /\ (\A k \in 1..Len(vals) : vals[k].ok)
            /\ BaseDate(Trunc(mo.v), Trunc(dy.v)).ok,
     m_type |-> Trunc(mt.v),
     year |-> Trunc(yr.v),
     base_dt |-> BaseDate(Trunc(mo.v), Trunc(dy.v)).dt,
     hourly_vals |-> [k \in 1..Len(vals) |-> vals[k].v]]

ParseRow(row) ==
    ParsedRow(ParseFloat(row[1]), ParseFloat(row[2]), ParseFloat(row[3]),
              ParseFloat(row[4]), HourlyVals(row))

\* DefaultCell without values: the entry of a new timestamp starts empty
DefaultCell_Missing == [GHI |-> NaN, DHI |-> NaN, Temperature |-> NaN, WindSpeed |-> NaN]

\* line 56
DefaultCell == [GHI |-> 0, DHI |-> 0, Temperature |-> 0, WindSpeed |-> 0]

\* lines 58-69: the entry of one timestamp after a value of type m_type
SetChannel(cell, m_type, val) ==
    CASE m_type = 1 -> [cell EXCEPT !.GHI = (val \div 9) * 25]
      [] m_type = 2 -> [cell EXCEPT !.DHI = (val \div 9) * 25]
      [] m_type = 5 -> [cell EXCEPT !.Temperature = val \div 10]
      [] m_type = 7 -> [cell EXCEPT !.WindSpeed = val \div 10]
      [] OTHER -> cell

InSeq(q, x) == \E k \in 1..Len(q) : q[k] = x

\* the timestamps of the hourly values of a row, in order
RowStamps(base_dt, n) == [k \in 1..n |-> base_dt + (k - 1)]

\* ApplyRow without the test 'if dt not in data' of line 55: the entry of
\* every timestamp of the row starts from the defaults
ApplyRow_ResetsEntry(d, m_type, base_dt, hourly_vals) ==
    [keys |-> d.keys \o SelectSeq(RowStamps(base_dt, Len(hourly_vals)),
                                  LAMBDA t : ~InSeq(d.keys, t)),
     val |-> [t \in DOMAIN d.val
                    \cup {base_dt + (k - 1) : k \in 1..Len(hourly_vals)} |->
                IF t - base_dt \in 0..(Len(hourly_vals) - 1)
                THEN SetChannel(DefaultCell, m_type, hourly_vals[t - base_dt + 1])
                ELSE d.val[t]]]

\* lines 51-69: the dict after the loop over the hourly values of one row.
\* The 24 timestamps of a row are distinct, so each is written once.
ApplyRow(d, m_type, base_dt, hourly_vals) ==
    [keys |-> d.keys \o SelectSeq(RowStamps(base_dt, Len(hourly_vals)),
                                  LAMBDA t : ~InSeq(d.keys, t)),
     val |-> [t \in DOMAIN d.val
                    \cup {base_dt + (k - 1) : k \in 1..Len(hourly_vals)} |->
                IF t - base_dt \in 0..(Len(hourly_vals) - 1)
                THEN SetChannel(IF t \in DOMAIN d.val THEN d.val[t] ELSE DefaultCell,
                                m_type, hourly_vals[t - base_dt + 1])
                ELSE d.val[t]]]

\* the index left in insertion order (sort_index() missing)
SortKeys_Unsorted(q) == q

\* line 85: sort_index() - the keys in ascending order
RECURSIVE SortKeys(_)
SortKeys(q) ==
    IF q = <<>> THEN <<>>
    ELSE SortKeys(SelectSeq(Tail(q), LAMBDA t : t < Head(q)))
         \o <<Head(q)>>
         \o SortKeys(SelectSeq(Tail(q), LAMBDA t : ~(t < Head(q))))

\* lines 78-85: the columns of the DataFrame, of the rows in index order
HColumns == <<"DateTime", "GHI", "DHI", "Temperature", "WindSpeed">>
HMetaColumns == <<"Latitude", "Longitude", "Elevation">>

SortedFrame(d, index) ==
    [columns |-> HColumns,
     DateTime |-> index,
     GHI |-> [k \in 1..Len(index) |-> d.val[index[k]].GHI],
     DHI |-> [k \in 1..Len(index) |-> d.val[index[k]].DHI],
     Temperature |-> [k \in 1..Len(index) |-> d.val[index[k]].Temperature],
     WindSpeed |-> [k \in 1..Len(index) |-> d.val[index[k]].WindSpeed]]

\* lines 88-91: reading a key the dict lacks raises KeyError
MetadataRaises(md) == md # <<>> /\ DOMAIN md # {"lat", "lon", "elev"}

\* lines 88-91: the metadata columns, a scalar repeated on every row
WithMetadata(frame, md) ==
    IF md = <<>> THEN frame
    ELSE [columns |-> frame.columns \o HMetaColumns,
          DateTime |-> frame.DateTime,
          GHI |-> frame.GHI,
          DHI |-> frame.DHI,
          Temperature |-> frame.Temperature,
          WindSpeed |-> frame.WindSpeed,
          Latitude |-> [k \in 1..Len(frame.DateTime) |-> md["lat"]],
          Longitude |-> [k \in 1..Len(frame.DateTime) |-> md["lon"]],
          Elevation |-> [k \in 1..Len(frame.DateTime) |-> md["elev"]]]

\* lines 78-91
HMakeFrame(d, md) == WithMetadata(SortedFrame(d, SortKeys(d.keys)), md)

NoData == [keys |-> <<>>, val |-> <<>>]

HInit ==
    /\ hpc = "start"
    /\ reader = <<>>
    /\ hi = 0
    /\ data = NoData
    /\ metadata = <<>>
    /\ hdf = NoFrame
    /\ houtput = NoFile
    /\ hprinted = <<>>
    /\ hsummary = <<>>
    /\ hlog = <<>>

\* line 12-13: the file is opened and handed to csv.reader
H_Open ==
    /\ hpc = "start"
    /\ vpc = "start"
    /\ \E f \in HFiles : reader' = f
    /\ hpc' = "header"
    /\ UNCHANGED <<hi, data, metadata, hdf, houtput, hprinted, hsummary, hlog>>
    /\ UNCHANGED <<varsV, varsG, varsP>>

\* line 12: open() raises; the exception leaves the function
H_OpenFails ==
    /\ hpc = "start"
    /\ vpc = "start"
    /\ hpc' = "open_raised"
    /\ UNCHANGED <<reader, hi, data, metadata, hdf, houtput, hprinted, hsummary, hlog>>
    /\ UNCHANGED <<varsV, varsG, varsP>>

\* lines 14-23: the header row; next() on an empty file raises StopIteration,
\* which the except clause catches like the ValueError of float()
H_Header ==
    /\ hpc = "header"
    /\ IF reader = <<>>
       THEN /\ metadata' = <<>>
            /\ hprinted' = Append(hprinted, "header_warning")
       ELSE /\ metadata' = HeaderMetadata(reader[1])
            /\ hprinted' = IF HeaderWarns(reader[1])
                           THEN Append(hprinted, "header_warning")
                           ELSE IF Len(reader[1]) >= 7
                           THEN Append(hprinted, "metadata_found")
                           ELSE hprinted
    /\ hpc' = "loop"
    /\ UNCHANGED <<reader, hi, data, hdf, houtput, hsummary, hlog>>
    /\ UNCHANGED <<varsV, varsG, varsP>>

\* H_Row with the cells parsed inside the loop over the hours: a row that
\* raises has by then created its timestamps (a cell that is no number
\* counts as 0)
H_Row_ParsesLate ==
    /\ hpc = "loop"
    /\ hi < Len(reader) - 1
    /\ LET row == StripCells(RowCells(reader[hi + 2]))
           parsed == ParseRow(row)
       IN  IF RowAccepted(row) /\ parsed.ok
           THEN /\ data' = ApplyRow(data, parsed.m_type, parsed.base_dt,
                                    parsed.hourly_vals)
                /\ hlog' = Append(hlog, TRUE)
           ELSE /\ data' = IF RowAccepted(row)
                           THEN ApplyRow(data, parsed.m_type, parsed.base_dt,
                                         parsed.hourly_vals)
                           ELSE data
                /\ hlog' = Append(hlog, FALSE)
    /\ hi' = hi + 1
    /\ UNCHANGED <<hpc, reader, metadata, hdf, houtput, hprinted, hsummary>>
    /\ UNCHANGED <<varsV, varsG, varsP>>

\* lines 25-72: one iteration of the loop over the remaining rows
H_Row ==
    /\ hpc = "loop"
    /\ hi < Len(reader) - 1
    /\ LET row == StripCells(RowCells(reader[hi + 2]))
           parsed == ParseRow(row)
       IN  IF RowAccepted(row) /\ parsed.ok
           THEN /\ data' = ApplyRow(data, parsed.m_type, parsed.base_dt,
                                    parsed.hourly_vals)
                /\ hlog' = Append(hlog, TRUE)
           ELSE /\ UNCHANGED data
                /\ hlog' = Append(hlog, FALSE)
    /\ hi' = hi + 1
    /\ UNCHANGED <<hpc, reader, metadata, hdf, houtput, hprinted, hsummary>>
    /\ UNCHANGED <<varsV, varsG, varsP>>

\* lines 74-76: nothing was extracted; the function prints an error and returns
H_NoData ==
    /\ hpc = "loop"
    /\ hi >= Len(reader) - 1
    /\ data.keys = <<>>
    /\ hprinted' = Append(hprinted, "no_data_error")
    /\ hpc' = "returned"
    /\ UNCHANGED <<reader, hi, data, metadata, hdf, houtput, hsummary, hlog>>
    /\ UNCHANGED <<varsV, varsG, varsP>>

\* lines 78-91: the table is assembled; a partial metadata dict raises KeyError
H_Assemble ==
    /\ hpc = "loop"
    /\ hi >= Len(reader) - 1
    /\ data.keys # <<>>
    /\ IF MetadataRaises(metadata)
       THEN hpc' = "metadata_raised" /\ UNCHANGED hdf
       ELSE hpc' = "assembled" /\ hdf' = HMakeFrame(data, metadata)
    /\ UNCHANGED <<reader, hi, data, metadata, houtput, hprinted, hsummary, hlog>>
    /\ UNCHANGED <<varsV, varsG, varsP>>

\* lines 93-95: to_csv, then the printed summary (the number of rows saved)
H_Save ==
    /\ hpc = "assembled"
    /\ houtput' = [written |-> TRUE, table |-> hdf]
    /\ hsummary' = [rows |-> Len(hdf.DateTime)]
    /\ hpc' = "done"
    /\ UNCHANGED <<reader, hi, data, metadata, hdf, hprinted, hlog>>
    /\ UNCHANGED <<varsV, varsG, varsP>>

\* line 93: to_csv raises before it writes; the exception leaves the function
H_SaveFails ==
    /\ hpc = "assembled"
    /\ hpc' = "to_csv_raised"
    /\ UNCHANGED <<reader, hi, data, metadata, hdf, houtput, hprinted, hsummary, hlog>>
    /\ UNCHANGED <<varsV, varsG, varsP>>

HNext ==
    \/ H_Open
    \/ H_OpenFails
    \/ H_Header
    \/ H_Row
    \/ H_NoData
    \/ H_Assemble
    \/ H_Save
    \/ H_SaveFails

-----------------------------------------------------------------------------
(* demo-automation.py: get_safe_filename *)

\* the highest number N of a file base_N that a directory of the model holds
MaxFiles == 100

\* line 239: the safety limit of the auto-increment loop
SafetyLimit == 100

\* line 454: the default base name
BaseName == <<"o", "u", "t", "p", "u", "t">>

\* line 227: f"{base_filename}_{counter}" (n = 0 names the base itself)
NumberedName(base, n) == IF n = 0 THEN base ELSE base \o <<"_">> \o NatStr(n)

\* os.path.join(output_dir, name); lines 216-219 use the bare name when
\* output_dir is empty
JoinPath(dir, name) == IF dir = <<>> THEN name ELSE dir \o <<"/">> \o name

\* lines 216-219, 229-232: the path that is looked up on disk
DiskName(dir, name, ext) == JoinPath(dir, name \o ext)

Dirs == {<<>>, <<"o", "u", "t">>}
Exts == {<<>>, <<".", "c", "s", "v">>}

\* a directory that holds base, base_1, ..., base_k with one extension
DiskUpTo(dir, ext, base, k) ==
    {DiskName(dir, NumberedName(base, i), ext) : i \in 0..k}

FileCounts == {0 - 1, 0, 1, 2, MaxFiles - 1, MaxFiles}

\* the disks of the model: a run of files without a gap, or two files
Disks(base) ==
    {DiskUpTo(d, e, base, k) : d \in Dirs, e \in Exts, k \in FileCounts}
    \cup {{DiskName(d, NumberedName(base, i), e) : i \in {0, 2}} : d \in Dirs, e \in Exts}
    \cup {{DiskName(d, NumberedName(base, i), e) : i \in {1, 2}} : d \in Dirs, e \in Exts}

NoName == <<>>

GInit ==
    /\ gpc = "start"
    /\ overwrite = FALSE
    /\ output_dir = <<>>
    /\ base_filename = <<>>
    /\ check_extension = <<>>
    /\ disk = {}
    /\ counter = 0
    /\ gret = NoName

\* lines 209-225: the call, up to the first return or the start of the loop
G_Call ==
    /\ gpc = "start"
    /\ \E o \in BOOLEAN, d \in Dirs, e \in Exts, fs \in Disks(BaseName) :
           /\ overwrite' = o
           /\ output_dir' = d
           /\ check_extension' = e
           /\ disk' = fs
           /\ base_filename' = BaseName
           /\ IF o \/ DiskName(d, BaseName, e) \notin fs
              THEN gret' = BaseName /\ gpc' = "returned" /\ counter' = counter
              ELSE gret' = NoName /\ gpc' = "loop" /\ counter' = 1
    /\ UNCHANGED <<varsV, varsH, varsP>>

\* lines 226-240: one iteration of the while loop
G_Loop ==
    /\ gpc = "loop"
    /\ IF DiskName(output_dir, NumberedName(base_filename, counter), check_extension)
              \notin disk
       THEN /\ gret' = NumberedName(base_filename, counter)
            /\ gpc' = "returned"
            /\ counter' = counter
       ELSE /\ counter' = counter + 1
            /\ IF counter + 1 > SafetyLimit
               THEN gret' = base_filename /\ gpc' = "returned"
               ELSE UNCHANGED <<gret, gpc>>
    /\ UNCHANGED <<overwrite, output_dir, base_filename, check_extension, disk>>
    /\ UNCHANGED <<varsV, varsH, varsP>>

GNext ==
    \/ G_Call
    \/ G_Loop

-----------------------------------------------------------------------------
(* demo-automation.py: clear_pcs_list *)

\* number of items the PCS list holds at most
MaxItems == 12

\* line 123: range(10)
LoopLimit == 10

PInit ==
    /\ ppc = "start"
    /\ list_exists = FALSE
    /\ count = 0
    /\ ptry = 0
    /\ premoved = TRUE

\* lines 119-122: the list box is looked up (LB_GETCOUNT answers -1 on error)
P_Call ==
    /\ ppc = "start"
    /\ \E x \in BOOLEAN, n \in (0 - 1)..MaxItems :
           /\ list_exists' = x
           /\ count' = n
           /\ ppc' = IF x THEN "loop" ELSE "returned"
    /\ UNCHANGED <<ptry, premoved>>
    /\ UNCHANGED <<varsV, varsH, varsG>>

\* lines 123-134: one iteration: count check, select the first item, click
\* the delete button (the click removes the item or does nothing)
P_Iter ==
    /\ ppc = "loop"
    /\ ptry < LoopLimit
    /\ ptry' = ptry + 1
    /\ IF count <= 0
       THEN ppc' = "returned" /\ UNCHANGED <<count, premoved>>
       ELSE /\ \E removed \in BOOLEAN :
                 /\ count' = IF removed THEN count - 1 ELSE count
                 /\ premoved' = (premoved /\ removed)
            /\ UNCHANGED ppc
    /\ UNCHANGED list_exists
    /\ UNCHANGED <<varsV, varsH, varsG>>

\* line 123: range(10) is exhausted; the function returns
P_Exhausted ==
    /\ ppc = "loop"
    /\ ptry = LoopLimit
    /\ ppc' = "returned"
    /\ UNCHANGED <<list_exists, count, ptry, premoved>>
    /\ UNCHANGED <<varsV, varsH, varsG>>

PNext ==
    \/ P_Call
    \/ P_Iter
    \/ P_Exhausted

-----------------------------------------------------------------------------
(* Specifications: one run of the vertical script (SpecV), one run of the
   horizontal converter (SpecH), one run of either (Spec), one call of
   get_safe_filename (SpecG), one call of clear_pcs_list (SpecP) *)

Init == VInit /\ HInit /\ GInit /\ PInit

SpecV == Init /\ [][VNext]_vars
SpecH == Init /\ [][HNext]_vars

Next == VNext \/ HNext
Spec == Init /\ [][Next]_vars

SpecG == Init /\ [][GNext]_vars
SpecP == Init /\ [][PNext]_vars

-----------------------------------------------------------------------------
(* Claims about the vertical decoder *)

\* the column of the frame that element number n is written to
ChannelColumn(frame, n) ==
    CASE n = 1 -> frame.GHI
      [] n = 2 -> frame.DNI_horiz
      [] n = 3 -> frame.DHI
      [] n = 5 -> frame.Temperature
      [] n = 7 -> frame.WindSpeed

\* C1: after get_param each of the five channel columns of the vertical table
\* has exactly 8760 entries, as many as the timestamp axis, however many lines
\* the file has for the element (none, or more than 365).
C1_ChannelLengths ==
    df # NoFrame =>
        /\ Len(df.GHI) = 8760
        /\ Len(df.DNI_horiz) = 8760
        /\ Len(df.DHI) = 8760
        /\ Len(df.Temperature) = 8760
        /\ Len(df.WindSpeed) = 8760
        /\ Len(df.GHI) = Len(df.DateTime)

\* a run that saved a table for a file with more than 365 accepted lines of
\* element 00001 and no line of element 00003
C1_Witness ==
    /\ vpc = "done"
    /\ Code(1) \in DOMAIN data_rows
    /\ Len(data_rows[Code(1)]) > 8760
    /\ Code(3) \notin DOMAIN data_rows

\* the 1-based position, in the sequence of its element, of hour h of the
\* j-th data line: 24 values for every accepted earlier line of that element
PositionOf(j, h) ==
    24 * Cardinality({i \in 1..(j - 1) : vlog[i] /\ lines[i + 1].code = lines[j + 1].code})
    + h + 1

\* the hour slots of a line whose 4-character value part parses to 8888
SentinelHours(text) ==
    {h \in 0..23 : /\ ParseInt(Slice(text, 15 + 5 * h, 15 + 5 * h + 4)).ok
                   /\ ParseInt(Slice(text, 15 + 5 * h, 15 + 5 * h + 4)).v = 8888}

\* hour h of the j-th data line is emitted: the line was accepted, its element
\* has a column and the hour lies within the table
IsEmitted(j, h) ==
    /\ vlog[j]
    /\ Code(lines[j + 1].code) \in KnownCodes
    /\ PositionOf(j, h) <= 8760

\* C2: an hourly field whose value part parses to 8888 is emitted as NaN,
\* never as a number, in every channel and hour slot, also after scaling.
C2_SentinelIsMissing ==
    vpc \in {"assembled", "done"} =>
        \A j \in 1..Len(vlog) : \A h \in SentinelHours(LineText(lines[j + 1])) :
            IsEmitted(j, h)
            => IsNaN(ChannelColumn(df, lines[j + 1].code)[PositionOf(j, h)])

\* a saved table one of whose cells comes from a field that reads 8888
C2_Witness ==
    /\ vpc = "done"
    /\ \E j \in 1..Len(vlog) : \E h \in SentinelHours(LineText(lines[j + 1])) :
           IsEmitted(j, h)

\* C3: the DateTime column of the vertical table has 8760 entries, starts at
\* 2016-01-01 00:00 and advances by exactly one hour from row to row.
C3_TimestampAxis ==
    df # NoFrame =>
        /\ Len(df.DateTime) = 8760
        /\ Calendar(df.DateTime[1]) = [year |-> 2016, month |-> 1, day |-> 1, hour |-> 0]
        /\ \A k \in 1..(Len(df.DateTime) - 1) : df.DateTime[k + 1] - df.DateTime[k] = 1

\* a saved table of a file with an accepted and a rejected data line
C3_Witness ==
    /\ vpc = "done"
    /\ \E j \in 1..Len(vlog) : vlog[j]
    /\ \E j \in 1..Len(vlog) : ~vlog[j]

-----------------------------------------------------------------------------
(* Claims about the horizontal converter *)

\* C4: the horizontal table has one row for every hour from the earliest to
\* the latest timestamp, so adjacent rows are exactly one hour apart.
C4_NoGaps ==
    hdf # NoFrame =>
        \A k \in 1..(Len(hdf.DateTime) - 1) : hdf.DateTime[k + 1] = hdf.DateTime[k] + 1

\* C5: the rows of the horizontal table are in strictly increasing timestamp
\* order (so no timestamp occurs twice), whatever the order of the input rows.
C5_StrictlyIncreasing ==
    hdf # NoFrame =>
        \A k \in 1..(Len(hdf.DateTime) - 1) : hdf.DateTime[k] < hdf.DateTime[k + 1]

\* a saved table of a file in which an applied row is followed by an applied
\* row of an earlier or the same day
C5_Witness ==
    /\ hpc = "done"
    /\ \E i \in 1..Len(hlog) : \E j \in 1..Len(hlog) :
           /\ i < j /\ hlog[i] /\ hlog[j]
           /\ DayOfYear(reader[i + 1].month, reader[i + 1].day)
              > DayOfYear(reader[j + 1].month, reader[j + 1].day)

-----------------------------------------------------------------------------
(* Claims about both decoders *)

ValuesOf(rows, code) == IF code \in DOMAIN rows THEN rows[code] ELSE <<>>

\* one iteration of the vertical loop: a line shorter than 130 characters
\* changes nothing, every other line appends 24 values to the sequence of its
\* element and leaves the other sequences alone; the loop goes on either way
C6_VLine ==
    (vpc = "loop" /\ vi' = vi + 1) =>
        /\ vpc' = "loop"
        /\ IF Len(LineText(lines[vi + 2])) < 130
           THEN data_rows' = data_rows
           ELSE /\ \A c \in DOMAIN data_rows :
                       /\ c \in DOMAIN data_rows'
                       /\ SubSeq(data_rows'[c], 1, Len(data_rows[c])) = data_rows[c]
                /\ \A c \in DOMAIN data_rows' :
                       Len(data_rows'[c]) =
                           Len(ValuesOf(data_rows, c))
                           + (IF c = Code(lines[vi + 2].code) THEN 24 ELSE 0)
                /\ Code(lines[vi + 2].code) \in DOMAIN data_rows'

\* the row the horizontal loop is about to read raises or has too few columns
RowRejected(row) == Len(row) < MinColumns \/ ~ParseRow(row).ok

\* the 24 timestamps of the parsed row p are keys of d, and the channel of its
\* type holds the row's values in physical units (irradiance: x 10000 / 3600,
\* temperature and wind: x 0.1)
Contributes(d, p) ==
    \A k \in 0..23 :
        /\ p.base_dt + k \in DOMAIN d.val
        /\ p.m_type = 1 => (d.val[p.base_dt + k].GHI \div 25) * 9 = p.hourly_vals[k + 1]
        /\ p.m_type = 2 => (d.val[p.base_dt + k].DHI \div 25) * 9 = p.hourly_vals[k + 1]
        /\ p.m_type = 5 => d.val[p.base_dt + k].Temperature * 10 = p.hourly_vals[k + 1]
        /\ p.m_type = 7 => d.val[p.base_dt + k].WindSpeed * 10 = p.hourly_vals[k + 1]

\* one iteration of the horizontal loop: a row with too few columns or a parse
\* exception changes nothing, every other row has its 24 values in the dict
\* afterwards and removes no timestamp; the loop goes on either way
C6_HRow ==
    (hpc = "loop" /\ hi' = hi + 1) =>
        /\ hpc' = "loop"
        /\ LET row == StripCells(RowCells(reader[hi + 2]))
           IN  IF RowRejected(row)
               THEN data' = data
               ELSE /\ Contributes(data', ParseRow(row))
                    /\ DOMAIN data.val \subseteq DOMAIN data'.val

\* C6: a rejected line never aborts the run and never disturbs the other
\* lines: every line that is not rejected is decoded and contributes its 24
\* values, and the loop continues towards the output.
C6_RejectedLineIsSkipped == [][C6_VLine /\ C6_HRow]_vars

\* a run of the vertical script that wrote its output although its file has a
\* rejected line before an accepted one
C6_Witness ==
    /\ vpc = "done"
    /\ output_file.written
    /\ \E i \in 1..Len(vlog) : \E j \in 1..Len(vlog) : i < j /\ ~vlog[i] /\ vlog[j]

Rejections(log) == Cardinality({j \in 1..Len(log) : ~log[j]})

\* C7: at the end of a run the summary states the number of skipped lines,
\* and that number is the number of input lines that were rejected.
C7_SkipsAreCounted ==
    /\ (vpc = "done" /\ Rejections(vlog) > 0) =>
           /\ "skipped" \in DOMAIN vsummary
           /\ vsummary["skipped"] = Rejections(vlog)
    /\ (hpc = "done" /\ Rejections(hlog) > 0) =>
           /\ "skipped" \in DOMAIN hsummary
           /\ hsummary["skipped"] = Rejections(hlog)

\* C8: a malformed or absent station header aborts neither decoder.
C8_HeaderIsNonFatal ==
    /\ vpc # "header_raised"
    /\ hpc # "metadata_raised"

\* C9: the output is written in one final step, after every line has been
\* consumed and the table assembled; a failure to read the input or an
\* exception while decoding or assembling leaves no output behind.
C9_NoPartialOutput ==
    /\ output_file.written =>
           /\ vpc = "done"
           /\ vi = Len(lines) - 1
           /\ df # NoFrame
           /\ output_file.table = df
    /\ vpc \in Raised => ~output_file.written
    /\ houtput.written =>
           /\ hpc = "done"
           /\ hi = Len(reader) - 1
           /\ hdf # NoFrame
           /\ houtput.table = hdf
    /\ hpc \in Raised \cup {"returned"} => ~houtput.written

\* a run of the vertical script that consumed two data lines and wrote its output
C9_Witness ==
    /\ vpc = "done"
    /\ output_file.written
    /\ Len(vlog) = 2
    /\ Len(lines) = 3

\* C10: both decoders emit the columns DateTime, GHI, DNI_horiz, DHI,
\* Temperature, WindSpeed, Latitude, Longitude, Elevation, in this order.
C10_CanonicalColumns ==
    /\ output_file.written =>
           output_file.table.columns =
               <<"DateTime", "GHI", "DNI_horiz", "DHI", "Temperature", "WindSpeed",
                 "Latitude", "Longitude", "Elevation">>
    /\ houtput.written =>
           houtput.table.columns =
               <<"DateTime", "GHI", "DNI_horiz", "DHI", "Temperature", "WindSpeed",
                 "Latitude", "Longitude", "Elevation">>

-----------------------------------------------------------------------------
(* Claims about codes, widths and columns *)

CanonicalNames ==
    {"DateTime", "GHI", "DNI_horiz", "DHI", "Temperature", "WindSpeed",
     "Latitude", "Longitude", "Elevation"}

\* the table has a column besides the canonical ones
HasUnclassifiedColumn(table) ==
    \E k \in 1..Len(table.columns) : table.columns[k] \notin CanonicalNames

\* C11: the values of an element or type code outside the channel registry
\* are kept in the result under their raw code: a saved table of a file with
\* an accepted line of such a code has a column for it.
C11_UnknownCodesPreserved ==
    /\ (vpc = "done" /\ \E c \in DOMAIN data_rows : c \notin KnownCodes)
           => HasUnclassifiedColumn(output_file.table)
    /\ (hpc = "done" /\ \E j \in 1..Len(hlog) :
                            hlog[j] /\ reader[j + 1].mtype \notin {1, 2, 5, 7})
           => HasUnclassifiedColumn(houtput.table)

\* C12: a line that passes the width check holds all 24 hourly windows of 5
\* characters that start at offset 15; checked for the line just consumed.
C12_AcceptedLineIsWhole ==
    (vlog # <<>> /\ vlog[Len(vlog)]) =>
        \A h \in 0..23 : 15 + 5 * h + 5 <= Len(LineText(lines[Len(vlog) + 1]))

\* C13: a data row with at least 28 columns whose fields parse is decoded;
\* checked for the row just consumed.
C13_Rows28AreDecoded ==
    hlog # <<>> =>
        ((/\ Len(StripCells(RowCells(reader[Len(hlog) + 1]))) >= 28
          /\ ParseRow(StripCells(RowCells(reader[Len(hlog) + 1]))).ok)
         => hlog[Len(hlog)])

\* the row just consumed was applied, and the 24 hours of the day (y, its
\* month, its day) are timestamps of the dict
LastRowStampsIn(y) ==
    (hlog # <<>> /\ hlog[Len(hlog)]) =>
        \A h \in 0..23 :
            HoursOf(y, reader[Len(hlog) + 1].month, reader[Len(hlog) + 1].day, h)
                \in DOMAIN data.val

\* C14 as stated: the values of an applied row are placed at timestamps of
\* the row's own year.
C14_RowYearIsUsed ==
    hlog # <<>> => LastRowStampsIn(reader[Len(hlog) + 1].year)

\* C14, amended: the values of an applied row are placed at the timestamps
\* date(2016, month, day) + hour, whatever the row's year column says, so
\* every timestamp of the dict lies in 2016.
C14_YearIsForced ==
    /\ LastRowStampsIn(2016)
    /\ \A t \in DOMAIN data.val : Calendar(t).year = 2016

\* a saved table of a file with an applied row whose year column reads 2017
C14_Witness ==
    /\ hpc = "done"
    /\ \E j \in 1..Len(hlog) : hlog[j] /\ reader[j + 1].year = 2017

-----------------------------------------------------------------------------
(* Claims about channels and scale factors *)

\* lines 81-85 of the vertical script: the column and the scale factor of
\* element number n
VChannel(n) ==
    CASE n = 1 -> "GHI"
      [] n = 2 -> "DNI_horiz"
      [] n = 3 -> "DHI"
      [] n = 5 -> "Temperature"
      [] n = 7 -> "WindSpeed"

VScale(n) == IF n \in {1, 2, 3} THEN ScaleIrradiance ELSE ScaleTenth

\* the value the vertical decoder emits for the raw integer v of element n
VerticalValue(n, v) == Times(DecodeValue([ok |-> TRUE, v |-> v]), VScale(n))

\* the entry of timestamp t holds, in the vertical decoder's column of
\* element n, the vertical decoder's value of the raw integer v
SameAsVertical(cell, n, v) ==
    /\ VChannel(n) \in DOMAIN cell
    /\ cell[VChannel(n)] = VerticalValue(n, v)

\* C15: the horizontal converter writes a raw value of type n into the
\* channel, and with the physical value, that the vertical decoder gives the
\* same raw value of element n; checked for the integer cells of the row
\* just applied.
C15_DecodersAgree ==
    (hlog # <<>> /\ hlog[Len(hlog)] /\ reader[Len(hlog) + 1].mtype \in {1, 2, 3, 5, 7}) =>
        \A h \in 0..23 :
            ParseInt(RowCells(reader[Len(hlog) + 1])[5 + h]).ok =>
                SameAsVertical(
                    data.val[HoursOf(2016, reader[Len(hlog) + 1].month,
                                     reader[Len(hlog) + 1].day, h)],
                    reader[Len(hlog) + 1].mtype,
                    ParseInt(RowCells(reader[Len(hlog) + 1])[5 + h]).v)

\* the integer read from the 4-character value part of hour slot h of a line
RawOf(text, h) == ParseInt(Slice(text, 15 + 5 * h, 15 + 5 * h + 4))

\* number of values the accepted lines before the j-th data line gave its element
ValuesBefore(j) ==
    24 * Cardinality({i \in 1..(j - 1) : vlog[i] /\ lines[i + 1].code = lines[j + 1].code})

\* cell is v x 2.7778 for an irradiance element, v x 0.1 for temperature and
\* wind (cells are in 1/Unit; 2.7778 = 9 x 13889 / Unit)
ScaledOnce(n, cell, v) ==
    IF n \in {1, 2, 3}
    THEN cell % 9 = 0 /\ cell \div 9 = v * 13889
    ELSE cell * 10 = v * Unit

\* x rounded to hundredths (x in 1/Unit)
Round2(x) == (x + (Unit \div 200)) \div (Unit \div 100)

\* cell is v x 0.01 x 1e6 / 3600, to the hundredth, for an irradiance
\* element, v x 0.1 for temperature and wind
ScaledExactly(n, cell, v) ==
    IF n \in {1, 2, 3}
    THEN Round2(cell) = Round2(v * 25 * (Unit \div 9))
    ELSE cell * 10 = v * Unit

\* every emitted hour of the j-th data line (text: its characters, base: the
\* number of earlier values of its element) whose value part is an integer
\* other than 8888 is scaled exactly (exact) or by the rounded factor
LineScaled(j, text, base, exact) ==
    (vlog[j] /\ Code(lines[j + 1].code) \in KnownCodes) =>
        \A h \in 0..23 :
            (base + h + 1 <= 8760 /\ RawOf(text, h).ok /\ RawOf(text, h).v # 8888)
            => IF exact
               THEN ScaledExactly(lines[j + 1].code,
                                  ChannelColumn(df, lines[j + 1].code)[base + h + 1],
                                  RawOf(text, h).v)
               ELSE ScaledOnce(lines[j + 1].code,
                               ChannelColumn(df, lines[j + 1].code)[base + h + 1],
                               RawOf(text, h).v)

\* C16 as stated: a raw value v is emitted as v x 0.01 x 1e6 / 3600 W/m2
\* (to the hundredth) for the irradiance elements, v x 0.1 for temperature
\* and wind.
C16_ExactFactor ==
    vpc \in {"assembled", "done"} =>
        \A j \in 1..Len(vlog) :
            LineScaled(j, LineText(lines[j + 1]), ValuesBefore(j), TRUE)

\* C16, amended: a raw value v is emitted as v x 2.7778 W/m2 for the
\* irradiance elements and as v x 0.1 for temperature and wind, the factor
\* applied once.
C16_ScaledOnce ==
    vpc \in {"assembled", "done"} =>
        \A j \in 1..Len(vlog) :
            LineScaled(j, LineText(lines[j + 1]), ValuesBefore(j), FALSE)

\* a saved table of a long file: the raw value 100 of element 00001 (26
\* January, hour 0) is emitted as 277.78; the file also has a line of
\* element 00005
C16_Witness ==
    /\ vpc = "done"
    /\ Len(lines) > 27
    /\ vlog[26]
    /\ lines[27] = DataLine(1, 1, 26, "num", FullWidth)
    /\ RawOf(LineText(lines[27]), 0).v = 100
    /\ df.GHI[25 * 24 + 1] = 27778 * (Unit \div 100)
    /\ Code(5) \in DOMAIN data_rows

-----------------------------------------------------------------------------
(* Claims about single cells, rows and the header *)

\* the value an entry of the dict holds in the channel of type code n
HChannelValue(cell, n) ==
    CASE n = 1 -> cell.GHI
      [] n = 2 -> cell.DHI
      [] n = 5 -> cell.Temperature
      [] n = 7 -> cell.WindSpeed

\* the cells of a row after strip(): enough columns, the four leading cells
\* are numbers of a valid date, every hourly cell is blank or a number
ParsesButForBlanks(cells) ==
    /\ Len(cells) >= MinColumns
    /\ \A k \in 1..4 : ParseFloat(cells[k]).ok
    /\ ValidDate(2016, Trunc(ParseFloat(cells[2]).v), Trunc(ParseFloat(cells[3]).v))
    /\ \A k \in 5..28 : cells[k] = <<>> \/ ParseFloat(cells[k]).ok

HasBlank(cells) == Len(cells) >= 28 /\ \E k \in 5..28 : cells[k] = <<>>

\* the row of the given cells and descriptor r was applied, and every hour
\* whose cell is blank holds the number 0 in the channel of the row's type
BlankHoursAreZero(cells, r, applied) ==
    (ParsesButForBlanks(cells) /\ HasBlank(cells)) =>
        /\ applied
        /\ \A h \in 0..23 :
               (cells[5 + h] = <<>> /\ r.mtype \in {1, 2, 5, 7}) =>
                   /\ HoursOf(2016, r.month, r.day, h) \in DOMAIN data.val
                   /\ HChannelValue(data.val[HoursOf(2016, r.month, r.day, h)], r.mtype) = 0
                   /\ ~IsNaN(HChannelValue(data.val[HoursOf(2016, r.month, r.day, h)],
                                           r.mtype))

\* C17: a blank hourly cell of a row decodes to the number 0.0, not to
\* missing, and does not make the row rejected; checked for the row just
\* consumed.
C17_BlankIsZero ==
    hlog # <<>> =>
        BlankHoursAreZero(StripCells(RowCells(reader[Len(hlog) + 1])),
                          reader[Len(hlog) + 1], hlog[Len(hlog)])

\* a saved table of a file with an applied row that has blank hourly cells
C17_Witness ==
    /\ hpc = "done"
    /\ \E j \in 1..Len(hlog) :
           hlog[j] /\ HasBlank(StripCells(RowCells(reader[j + 1])))

\* the entry the vertical loop appends for hour slot h of a line
HourEntry(text, h) ==
    IF RawOf(text, h).ok /\ RawOf(text, h).v # 8888 THEN RawOf(text, h).v ELSE NaN

\* the last 24 entries of seq are the entries of the 24 hour slots of text,
\* each decided by its own field alone, and seq has n entries
LineAppended(seq, text, n) ==
    /\ Len(seq) = n
    /\ n >= 24
    /\ \A h \in 0..23 : seq[n - 24 + h + 1] = HourEntry(text, h)

\* C18: an accepted line appends exactly 24 entries to the sequence of its
\* element; an hour whose value part is no integer is NaN, every other hour
\* has the value of its own field; checked for the line just consumed.
C18_BadFieldIsLocal ==
    (vpc = "loop" /\ vlog # <<>> /\ vlog[Len(vlog)]) =>
        /\ Code(lines[Len(vlog) + 1].code) \in DOMAIN data_rows
        /\ LineAppended(data_rows[Code(lines[Len(vlog) + 1].code)],
                        LineText(lines[Len(vlog) + 1]),
                        ValuesBefore(Len(vlog)) + 24)

\* the line just consumed was accepted and has a field that is no integer
\* besides fields that are numbers
C18_Witness ==
    /\ vpc = "loop"
    /\ vlog # <<>>
    /\ vlog[Len(vlog)]
    /\ \E h \in 0..23 : ~RawOf(LineText(lines[Len(vlog) + 1]), h).ok
    /\ \E h \in 0..23 : /\ RawOf(LineText(lines[Len(vlog) + 1]), h).ok
                        /\ RawOf(LineText(lines[Len(vlog) + 1]), h).v # 8888

\* a row with enough columns one of whose parse steps raises: a leading cell
\* or an hourly cell that is no number, or a date the calendar lacks
Raising(r) ==
    /\ r.ncols >= 30
    /\ \/ r.kind \in {"junk", "badtype", "badmonth", "badday", "badyear"}
       \/ ~ValidDate(2016, r.month, r.day)

\* C19: a row that raises during a parse step is skipped entirely: the dict
\* after the iteration is the dict before it, and the loop goes on.
C19_RaisingRowChangesNothing ==
    [][(hpc = "loop" /\ hi' = hi + 1 /\ Raising(reader[hi + 2]))
       => (data' = data /\ hpc' = "loop")]_vars

\* a saved table of a file in which a raising row follows an applied row
C19_Witness ==
    /\ hpc = "done"
    /\ \E i \in 1..Len(hlog) : \E j \in 1..Len(hlog) :
           i < j /\ hlog[i] /\ ~hlog[j] /\ Raising(reader[j + 1])

\* degrees + minutes / 60 (both in 1/Unit)
DegMin(deg, min) == deg + min \div 60

\* C20: latitude and longitude are degrees + minutes / 60 of the header's
\* fields, elevation is the elevation field: 34 deg 51.36 min is 34.856,
\* 135 deg 30.50 min and 12.5 m for the first header; 26 deg 12.40 min,
\* 127 deg 41.10 min and 28.0 m for the second; in both formats, and the
\* table repeats the values on its rows.
C20_HeaderDecoding ==
    /\ (station.known /\ lines[1] = GoodHeader) =>
           /\ station.lat = 34856 * (Unit \div 1000)
           /\ station.lon = DegMin(135 * Unit, 3050 * (Unit \div 100))
           /\ station.elevation = 125 * (Unit \div 10)
    /\ (station.known /\ lines[1] = OtherHeader) =>
           /\ station.lat = DegMin(26 * Unit, 1240 * (Unit \div 100))
           /\ station.lon = DegMin(127 * Unit, 4110 * (Unit \div 100))
           /\ station.elevation = 28 * Unit
    /\ station.known => lines[1] \in {GoodHeader, OtherHeader}
    /\ df # NoFrame =>
           /\ df.Latitude[1] = station.lat
           /\ df.Longitude[Len(df.Longitude)] = station.lon
           /\ df.Elevation[1] = station.elevation
    /\ (hpc # "start" /\ hpc # "header" /\ reader # <<>> /\ reader[1] = HGoodHeader) =>
           metadata = [k \in {"lat", "lon", "elev"} |->
                          CASE k = "lat" -> 34856 * (Unit \div 1000)
                            [] k = "lon" -> DegMin(135 * Unit, 3050 * (Unit \div 100))
                            [] k = "elev" -> 125 * (Unit \div 10)]
    /\ (hpc # "start" /\ hpc # "header" /\ reader # <<>> /\ reader[1] = HOtherHeader) =>
           metadata = [k \in {"lat", "lon", "elev"} |->
                          CASE k = "lat" -> DegMin(26 * Unit, 1240 * (Unit \div 100))
                            [] k = "lon" -> DegMin(127 * Unit, 4110 * (Unit \div 100))
                            [] k = "elev" -> 28 * Unit]
    /\ (houtput.written /\ metadata # <<>>) =>
           /\ houtput.table.Latitude[1] = metadata["lat"]
           /\ houtput.table.Longitude[1] = metadata["lon"]
           /\ houtput.table.Elevation[1] = metadata["elev"]

\* a horizontal run that saved a table with the metadata of the second header
C20_Witness ==
    /\ hpc = "done"
    /\ reader[1] = HOtherHeader
    /\ houtput.table.Latitude[1] = DegMin(26 * Unit, 1240 * (Unit \div 100))

-----------------------------------------------------------------------------
(* Claims about the automation helpers *)

\* C22: with overwrite_existing False the returned name never names a file
\* that exists on disk (with the checked extension, in the output directory).
C22_ReturnedNameIsFree ==
    (gpc = "returned" /\ ~overwrite) =>
        DiskName(output_dir, gret, check_extension) \notin disk

\* C23: when the list box exists and every click removed the first item, the
\* list is empty when clear_pcs_list returns.
C23_ListIsCleared ==
    (ppc = "returned" /\ list_exists /\ premoved) => count <= 0

-----------------------------------------------------------------------------
(* Claims about the order and the padding of the vertical channels *)

\* the 24 entries of seq from position base + 1 are the hour slots of text
BlockAt(seq, text, base) ==
    /\ Len(seq) >= base + 24
    /\ \A h \in 0..23 : seq[base + h + 1] = HourEntry(text, h)

\* the data lines of the file that were accepted and carry element code c
AcceptedOf(c) == {j \in 1..Len(vlog) : vlog[j] /\ Code(lines[j + 1].code) = c}

\* C24: when the loop is over, the sequence of every element code is the
\* concatenation, in file order, of the 24-value blocks of the accepted lines
\* of that code: the k-th such line fills positions 24k .. 24k+23, whatever
\* its month and day fields say.
C24_FileOrder ==
    vpc \in {"assembled", "done"} =>
        /\ \A j \in 1..Len(vlog) :
               vlog[j] =>
                   /\ Code(lines[j + 1].code) \in DOMAIN data_rows
                   /\ BlockAt(data_rows[Code(lines[j + 1].code)],
                              LineText(lines[j + 1]), ValuesBefore(j))
        /\ \A c \in DOMAIN data_rows :
               Len(data_rows[c]) = 24 * Cardinality(AcceptedOf(c))

\* a file whose two lines of element 00001 are out of calendar order: the
\* line of 31 December fills the first block, the line of 1 January the second
C24_Witness ==
    /\ vpc = "assembled"
    /\ Len(lines) = 3
    /\ lines[2] = DataLine(1, 12, 31, "num", FullWidth)
    /\ lines[3] = DataLine(1, 1, 1, "num", FullWidth)
    /\ data_rows[Code(1)][1] = RawValue(12, 31, 0)
    /\ data_rows[Code(1)][25] = RawValue(1, 1, 0)


\* a column without a value
AllMissing == [k \in 1..8760 |-> NaN]

\* col holds, at every position of the axis that seq reaches, the scaled
\* value seq has there (a NaN stays NaN), and NaN at every later position
PaddedColumn(col, seq, scale) ==
    /\ Len(col) = 8760
    /\ \A k \in 1..Min(Len(seq), 8760) :
           col[k] = IF seq[k] = NaN THEN NaN ELSE seq[k] * scale
    /\ SubSeq(col, Min(Len(seq), 8760) + 1, 8760)
           = SubSeq(AllMissing, Min(Len(seq), 8760) + 1, 8760)

\* C25: a channel with n decoded values holds its first min(n, 8760) values,
\* scaled and in order, at the first positions of its column and NaN from
\* position n to 8759; values beyond position 8759 are dropped; a channel
\* whose code never occurs is 8760 times NaN.
C25_PaddingContent ==
    vpc = "assembled" =>
        \A n \in {1, 2, 3, 5, 7} :
            PaddedColumn(ChannelColumn(df, n), ValuesOf(data_rows, Code(n)), VScale(n))

\* a table of a file with 366 lines of element 00001 (24 values dropped), one
\* line of element 00005 (8736 positions padded) and no line of element 00003
C25_Witness ==
    /\ vpc = "assembled"
    /\ Len(ValuesOf(data_rows, Code(1))) = 8784
    /\ Len(ValuesOf(data_rows, Code(5))) = 24
    /\ Code(3) \notin DOMAIN data_rows
    /\ df.GHI[8760] = RawValue(12, 31, 23) * ScaleIrradiance
    /\ df.Temperature[5] = RawValue(1, 1, 4) * ScaleTenth
    /\ df.Temperature[25] = NaN
    /\ df.DHI[1] = NaN

-----------------------------------------------------------------------------
(* Claims about the order of the rows of the horizontal format *)

\* the dict after one more stripped row went through lines 25-72
AfterRow(d, row) ==
    IF RowAccepted(row) /\ ParseRow(row).ok
    THEN ApplyRow(d, ParseRow(row).m_type, ParseRow(row).base_dt,
                  ParseRow(row).hourly_vals)
    ELSE d

\* the dict after the data rows q[p[k]], q[p[k+1]], ... were read in this order
RECURSIVE FoldRows(_, _, _, _)
FoldRows(q, p, k, d) ==
    IF k > Len(q) THEN d
    ELSE FoldRows(q, p, k + 1, AfterRow(d, StripCells(RowCells(q[p[k]]))))

PermsOf(n) == {p \in [1..n -> 1..n] : \A i, j \in 1..n : p[i] = p[j] => i = j}

\* two rows that are both applied and have the same type code, month and day
SameSlot(r1, r2) ==
    /\ RowAccepted(r1) /\ ParseRow(r1).ok
    /\ RowAccepted(r2) /\ ParseRow(r2).ok
    /\ ParseRow(r1).m_type = ParseRow(r2).m_type
    /\ ParseRow(r1).base_dt = ParseRow(r2).base_dt

\* the permutation p keeps the file order among rows of the same slot
KeepsSlotOrder(q, p) ==
    \A i, j \in 1..Len(q) :
        (i < j /\ SameSlot(StripCells(RowCells(q[p[i]])), StripCells(RowCells(q[p[j]]))))
        => p[i] < p[j]

\* C26 as stated: every permutation of the data rows of the file gives the
\* table the file gives, also when two rows have the same type code, month
\* and day.
C26_AnyOrder ==
    hpc = "assembled" =>
        \A p \in PermsOf(Len(reader) - 1) :
            HMakeFrame(FoldRows(Tail(reader), p, 1, NoData), metadata) = hdf

\* C26, amended: every permutation of the data rows that keeps the file order
\* among rows of the same type code, month and day gives the table the file
\* gives; of two such rows the later one in the file supplies the values.
C26_OrderUpToSlots ==
    hpc = "assembled" =>
        \A p \in PermsOf(Len(reader) - 1) :
            KeepsSlotOrder(Tail(reader), p) =>
                HMakeFrame(FoldRows(Tail(reader), p, 1, NoData), metadata) = hdf

\* a table of two applied rows of different slots, the later day first: the
\* other order of the rows is a permutation the claim covers
C26_Witness ==
    /\ hpc = "assembled"
    /\ Len(reader) = 3
    /\ reader[2] = DataRow(1, 1, 3, 2016, "num", 30)
    /\ reader[3] = DataRow(2, 1, 1, 2016, "num", 31)
    /\ hlog = <<TRUE, TRUE>>
    /\ Len(hdf.DateTime) = 48
    /\ hdf.DHI[1] # 0
    /\ hdf.GHI[25] # 0

-----------------------------------------------------------------------------
(* Claims about the calendar of the vertical table *)

\* the file is a header and 365 accepted day-lines of one element, from
\* 1 January to 31 December in order, without a 29 February
CompleteYear ==
    /\ Len(lines) = 366
    /\ \A k \in 1..365 :
           /\ vlog[k]
           /\ lines[k + 1].code = lines[2].code
           /\ lines[k + 1].month = MonthDay(k).month
           /\ lines[k + 1].day = MonthDay(k).day

\* C27: for a complete in-order file of 365 day-lines, the 24 values of the
\* line of (month, day) stand at the timestamps whose calendar month and day
\* are that month and day, for every day of the year.
C27_CalendarAligned ==
    (vpc = "assembled" /\ CompleteYear) =>
        \A k \in 1..365 : \A h \in 0..23 :
            /\ Calendar(df.DateTime[24 * (k - 1) + h + 1]).month = lines[k + 1].month
            /\ Calendar(df.DateTime[24 * (k - 1) + h + 1]).day = lines[k + 1].day
            /\ Calendar(df.DateTime[24 * (k - 1) + h + 1]).hour = h

\* the number of data lines before the j-th that carry its element code,
\* accepted or not
LinesBefore(j) ==
    Cardinality({i \in 1..(j - 1) : lines[i + 1].code = lines[j + 1].code})

\* C28: a rejected too-short line leaves the later lines of its element at
\* their rows: the values of the j-th data line stand at the rows
\* 24 x (number of earlier lines of the element), accepted or not.
C28_SkipKeepsPosition ==
    vpc = "assembled" =>
        \A j \in 1..Len(vlog) :
            (vlog[j] /\ Code(lines[j + 1].code) \in KnownCodes
                     /\ 24 * LinesBefore(j) + 24 <= 8760)
            => \A h \in 0..23 :
                   ChannelColumn(df, lines[j + 1].code)[24 * LinesBefore(j) + h + 1]
                       = IF HourEntry(LineText(lines[j + 1]), h) = NaN THEN NaN
                         ELSE HourEntry(LineText(lines[j + 1]), h) * VScale(lines[j + 1].code)

-----------------------------------------------------------------------------
(* Claims about the metadata and the defaults of the horizontal table *)

\* C29: once the header row is processed, the metadata dict holds all of
\* lat, lon and elev or none of them.
C29_MetadataAllOrNothing ==
    hpc \notin {"start", "header"} =>
        DOMAIN metadata \in {{}, {"lat", "lon", "elev"}}

\* an applied row whose type is among types covers the timestamp t
Supplied(t, types) ==
    \E j \in 1..Len(hlog) :
        /\ hlog[j]
        /\ reader[j + 1].mtype \in types
        /\ t - HoursOf(2016, reader[j + 1].month, reader[j + 1].day, 0) \in 0..23

\* the value v of a cell is a number, and 0 when no row supplied it
NumericCell(v, supplied) == v # NaN /\ (~supplied => v = 0)

====
